---- MODULE Spec2Model ----
(***************************************************************************)
(* ChromaDBVectorDatabase: the vector-store adapter of claude-context, and *)
(* the ChromaDB client it drives.  Every adapter method is one action; the *)
(* backend calls it awaits are operators on the backend state that return  *)
(* either a new backend state or an error.                                 *)
(* Spec runs the adapter's methods one call at a time, SpecCreate runs     *)
(* concurrent createCollection calls await by await, and SpecEmbed runs    *)
(* the OpenRouterEmbedding provider.                                       *)
(***************************************************************************)
EXTENDS Integers, Sequences, FiniteSets, TLC

\* collections, backend: the adapter's handle cache and the ChromaDB server;
\* op, ret, err, result: the last completed call and its outcome;
\* flows: the calls that are in flight, each at one of its awaits
\* config: the configuration of the OpenRouterEmbedding provider
VARIABLES collections, backend, op, ret, err, result, flows, config

vars == <<collections, backend, op, ret, err, result, flows, config>>

(***************************************************************************)
(* Bounds and input universes                                              *)
(***************************************************************************)
MaxBatch == 2

Names == {"c1"}
Ids == {"x", "y"}

\* dimension arguments callers pass to createCollection
Dimensions == {1, 2}

\* the dimension argument of a createCollection call; 0 stands for a call
\* that passes none (the parameter is then undefined)
DimensionArguments == Dimensions \cup {0}

\* topK and limit arguments; 0 stands for an omitted one
TopKs == {0, 1}

\* vector, content and caller metadata of the documents that are inserted
PayloadA == [vector |-> <<0>>,    content |-> "a", metadata |-> [language |-> "go"]]
PayloadB == [vector |-> <<2>>,    content |-> "b", metadata |-> [language |-> "ts"]]
PayloadD == [vector |-> <<0, 1>>, content |-> "b", metadata |-> [language |-> "go"]]

Document(i, p) ==
  [id |-> i, vector |-> p.vector, content |-> p.content,
   relativePath |-> "src/a.ts", startLine |-> 1, endLine |-> 2,
   fileExtension |-> ".ts", metadata |-> p.metadata]

\* VectorDocument values handed to insert
Docs ==
  { Document("x", PayloadA), Document("x", PayloadB),
    Document("y", PayloadA), Document("y", PayloadD) }

QueryVectors == { <<0>>, <<1>>, <<0, 1>> }

SeqsUpTo(S, n) == UNION { [1..k -> S] : k \in 1..n }

Batches == SeqsUpTo(Docs, MaxBatch)
IdLists == SeqsUpTo(Ids, MaxBatch)

\* which of the backend calls of one adapter call fail with a connection
\* error: the k-th call the handler makes fails iff k is in the set
FailPatterns == { {}, {1}, {1, 2} }

\* the server builds the client may talk to: what add does with an id that
\* is already stored, and what a where clause of several keys means
Builds ==
  { [addExisting |-> "ignore", multiWhere |-> "error"],
    [addExisting |-> "error", multiWhere |-> "and"] }

Range(s) == { s[i] : i \in DOMAIN s }
Min(a, b) == IF a < b THEN a ELSE b

\* { ...base, ...over }: object spread, later keys win
Spread(base, over) ==
  [k \in DOMAIN base \cup DOMAIN over |->
     IF k \in DOMAIN over THEN over[k] ELSE base[k]]

(***************************************************************************)
(* The ChromaDB client.  A backend state maps each existing collection     *)
(* name to its creation metadata (declared), the dimension its index got   *)
(* from the first embedding added (dim, 0 while none) and its records.     *)
(***************************************************************************)
Ok(be, val) == [ok |-> TRUE, err |-> "", be |-> be, val |-> val]
Fail(be, e) == [ok |-> FALSE, err |-> e, be |-> be, val |-> << >>]

NewCollection(declared) == [declared |-> declared, dim |-> 0, docs |-> {}]

\* client.createCollection({name, metadata})
ClientCreateCollection(be, name, declared, down) ==
  IF down THEN Fail(be, "connection refused")
  ELSE IF name \in DOMAIN be THEN Fail(be, "already exists")
  ELSE Ok([n \in DOMAIN be \cup {name} |->
             IF n = name THEN NewCollection(declared) ELSE be[n]], name)

\* a getOrCreateCollection that answers with a fresh, empty collection
ClientGetOrCreateCollectionFresh(be, name, down) ==
  IF down THEN Fail(be, "connection refused")
  ELSE Ok([n \in DOMAIN be \cup {name} |->
             IF n = name THEN NewCollection(0) ELSE be[n]], name)

\* client.getOrCreateCollection({name}): no metadata is passed
ClientGetOrCreateCollection(be, name, down) ==
  IF down THEN Fail(be, "connection refused")
  ELSE IF name \in DOMAIN be THEN Ok(be, name)
  ELSE Ok([n \in DOMAIN be \cup {name} |->
             IF n = name THEN NewCollection(0) ELSE be[n]], name)

\* client.listCollections(), mapped to the collection names
listCollections(be) == DOMAIN be

\* client.deleteCollection({name}); notFoundText: whether the client words
\* the error for a missing collection with 'not found'
ClientDeleteCollection(be, name, down, notFoundText) ==
  IF down THEN Fail(be, "connection refused")
  ELSE IF name \notin DOMAIN be
       THEN Fail(be, IF notFoundText THEN "not found" ELSE "does not exist")
  ELSE Ok([n \in DOMAIN be \ {name} |-> be[n]], name)

DocsOf(be, name) == IF name \in DOMAIN be THEN be[name].docs ELSE {}

StoredIds(be, name) ==
  IF name \in DOMAIN be THEN { r.id : r \in be[name].docs } ELSE {}

\* add that stores every record it is given, whatever is stored already
CollectionAddBlind(be, name, ids, embeddings, metadatas, documents, down, onExisting) ==
  IF down THEN Fail(be, "connection refused")
  ELSE IF name \notin DOMAIN be THEN Fail(be, "collection does not exist")
  ELSE LET c == be[name]
           added == { [id |-> ids[i], embedding |-> embeddings[i],
                       metadata |-> metadatas[i], document |-> documents[i]]
                      : i \in DOMAIN ids }
       IN Ok([be EXCEPT ![name] =
                [c EXCEPT !.dim = Len(embeddings[1]), !.docs = c.docs \cup added]], name)

\* collection.add({ids, embeddings, metadatas, documents}); onExisting is
\* what the server does with an id that is already stored
CollectionAdd(be, name, ids, embeddings, metadatas, documents, down, onExisting) ==
  IF down THEN Fail(be, "connection refused")
  ELSE IF name \notin DOMAIN be THEN Fail(be, "collection does not exist")
  ELSE IF \E i, j \in DOMAIN ids : i # j /\ ids[i] = ids[j]
       THEN Fail(be, "duplicate ids")
  ELSE LET d == Len(embeddings[1])
           c == be[name]
       IN IF \/ \E i \in DOMAIN embeddings : Len(embeddings[i]) # d
             \/ (c.dim # 0 /\ c.dim # d)
          THEN Fail(be, "invalid dimension")
          ELSE IF onExisting = "error" /\ Range(ids) \cap StoredIds(be, name) # {}
          THEN Fail(be, "id already exists")
          ELSE LET fresh == { i \in DOMAIN ids : ids[i] \notin StoredIds(be, name) }
                   added == { [id |-> ids[i], embedding |-> embeddings[i],
                               metadata |-> metadatas[i], document |-> documents[i]]
                              : i \in fresh }
               IN Ok([be EXCEPT ![name] =
                        [c EXCEPT !.dim = d, !.docs = c.docs \cup added]], name)

\* collection.delete({ids}): ids that are not stored are skipped
CollectionDelete(be, name, ids, down) ==
  IF down THEN Fail(be, "connection refused")
  ELSE IF name \notin DOMAIN be THEN Fail(be, "collection does not exist")
  ELSE Ok([be EXCEPT ![name].docs = { r \in @ : r.id \notin Range(ids) }], name)

\* JSON-like values: a scalar, or an object with one key (an operator
\* expression such as {$eq: v})
Lit(v) == <<"lit", v>>
Obj(k, v) == <<"obj", k, v>>

\* an optional where clause / filter mapping
Undefined == [defined |-> FALSE]
Defined(m) == [defined |-> TRUE, map |-> m]

\* the server's reading of one where condition: a bare scalar is an
\* equality test, {$eq: scalar} and {$ne: scalar} are operator expressions
Condition(c) ==
  IF c[1] = "lit" THEN [valid |-> TRUE, op |-> "$eq", v |-> c[2]]
  ELSE IF c[2] \in {"$eq", "$ne"} /\ c[3][1] = "lit"
       THEN [valid |-> TRUE, op |-> c[2], v |-> c[3][2]]
       ELSE [valid |-> FALSE, op |-> "", v |-> ""]

\* where validation of the server: "none" (nothing to filter on), "ok" or
\* "invalid"
WhereCheck(where, multiWhere) ==
  IF ~where.defined \/ DOMAIN where.map = {} THEN "none"
  ELSE IF \E k \in DOMAIN where.map : ~Condition(where.map[k]).valid THEN "invalid"
  ELSE IF Cardinality(DOMAIN where.map) > 1 /\ multiWhere = "error" THEN "invalid"
  ELSE "ok"

Satisfies(r, k, c) ==
  /\ k \in DOMAIN r.metadata
  /\ IF c.op = "$eq" THEN r.metadata[k] = c.v ELSE r.metadata[k] # c.v

Matching(docs, where, multiWhere) ==
  IF WhereCheck(where, multiWhere) = "none" THEN docs
  ELSE { r \in docs :
           \A k \in DOMAIN where.map : Satisfies(r, k, Condition(where.map[k])) }

RECURSIVE SquaredL2(_, _)
SquaredL2(u, v) ==
  IF Len(u) = 0 THEN 0
  ELSE (u[1] - v[1]) * (u[1] - v[1]) + SquaredL2(Tail(u), Tail(v))

\* the orders in which the server may list the records S by ascending key
Orderings(S, key) ==
  { p \in [1..Cardinality(S) -> S] :
      /\ Range(p) = S
      /\ \A i, j \in DOMAIN p : i < j => key[p[i]] <= key[p[j]] }

Top(p, n) == SubSeq(p, 1, Min(n, Len(p)))

\* collection.query({queryEmbeddings: [q], nResults, where, include}): the
\* nearest records first; val is the set of lists the server may answer
CollectionQuery(be, name, q, nResults, where, down, multiWhere) ==
  IF down THEN Fail(be, "connection refused")
  ELSE IF name \notin DOMAIN be THEN Fail(be, "collection does not exist")
  ELSE IF WhereCheck(where, multiWhere) = "invalid" THEN Fail(be, "invalid where")
  ELSE LET c == be[name]
       IN IF c.dim = 0 THEN Ok(be, { << >> })
          ELSE IF Len(q) # c.dim THEN Fail(be, "invalid dimension")
          ELSE LET hits == Matching(c.docs, where, multiWhere)
                   distance == [r \in hits |-> SquaredL2(q, r.embedding)]
                   Row(r) == [id |-> r.id, metadata |-> r.metadata,
                              document |-> r.document, distance |-> distance[r]]
               IN Ok(be, { [i \in DOMAIN Top(p, nResults) |-> Row(p[i])] :
                           p \in Orderings(hits, distance) })

\* collection.get({where, limit, include}): the records in storage order
CollectionGet(be, name, where, limit, down, multiWhere) ==
  IF down THEN Fail(be, "connection refused")
  ELSE IF name \notin DOMAIN be THEN Fail(be, "collection does not exist")
  ELSE IF WhereCheck(where, multiWhere) = "invalid" THEN Fail(be, "invalid where")
  ELSE LET rows == Matching(be[name].docs, where, multiWhere)
       IN Ok(be, { Top(p, limit) : p \in Orderings(rows, [r \in rows |-> 0]) })


\* filter mappings handed to search: a scalar per field, or an operator
\* object as a value
Filters ==
  { Undefined,
    Defined(<< >>),
    Defined([language |-> Lit("go")]),
    Defined([language |-> Lit("go"), content |-> Lit("b")]),
    Defined([language |-> Obj("$ne", Lit("go"))]) }

\* the options handed to search; limit is the key the deployment test
\* passes ({limit: 5}), 0 when the caller passes none
SearchOptions ==
  { [topK |-> t, filter |-> f, limit |-> 0] : t \in TopKs, f \in Filters }
    \cup { [topK |-> 0, filter |-> Undefined, limit |-> 1] }

\* filter strings handed to query
FilterStrings ==
  { << "language", "=", "go" >>,
    << "language", " ", "=", " ", "ts" >>,
    << "language", ">", "go" >>,
    << "language", "=", "=", "go" >>,
    << "language", "!", "=", "go" >>,
    << "{", "\"language\"", ":", "\"go\"", "}" >>,
    << "{", "\"language\"", ":", "{", "\"$ne\"", ":", "\"go\"", "}", "}" >> }


(***************************************************************************)
(* The adapter                                                             *)
(***************************************************************************)
FallbackDimension == 1536

\* outcome of an adapter step: the cache, the backend and the index of the
\* next backend call
Done(cache, be, k) == [ok |-> TRUE, err |-> "", cache |-> cache, be |-> be, k |-> k]
Throw(cache, be, k, e) == [ok |-> FALSE, err |-> e, cache |-> cache, be |-> be, k |-> k]

\* createCollection without its catch clause
createCollectionNoCatch(cache, be, collectionName, dimension, F, k) ==
  LET r1 == ClientCreateCollection(be, collectionName, dimension, k \in F)
  IN IF r1.ok THEN Done(cache \cup {collectionName}, r1.be, k + 1)
     ELSE Throw(cache, r1.be, k + 1, r1.err)

createCollection(cache, be, collectionName, dimension, F, k) ==
  LET r1 == ClientCreateCollection(be, collectionName, dimension, k \in F)
  IN IF dimension = 0
     \* dimension.toString() of undefined throws inside the try, before the
     \* request is made; the catch rethrows what is not 'already exists'
     THEN Throw(cache, be, k, "Cannot read properties of undefined")
     ELSE IF r1.ok THEN Done(cache \cup {collectionName}, r1.be, k + 1)
     ELSE IF r1.err = "already exists"
     THEN LET r2 == ClientGetOrCreateCollection(r1.be, collectionName, (k + 1) \in F)
          IN IF r2.ok THEN Done(cache \cup {collectionName}, r2.be, k + 2)
             ELSE Throw(cache, r2.be, k + 2, r2.err)
     ELSE Throw(cache, r1.be, k + 1, r1.err)

\* a lookup that never creates: a name without collection is an error
getCollectionOnly(cache, be, collectionName, F, k) ==
  IF collectionName \in cache THEN Done(cache, be, k)
  ELSE IF k \in F THEN Throw(cache, be, k + 1, "connection refused")
  ELSE IF collectionName \notin DOMAIN be
       THEN Throw(cache, be, k + 1, "CollectionNotFound")
  ELSE Done(cache \cup {collectionName}, be, k + 1)

getOrCreateCollection(cache, be, collectionName, F, k) ==
  IF collectionName \in cache THEN Done(cache, be, k)
  ELSE LET r == ClientGetOrCreateCollection(be, collectionName, k \in F)
       IN IF r.ok THEN Done(cache \cup {collectionName}, r.be, k + 1)
          ELSE createCollection(cache, r.be, collectionName, FallbackDimension, F, k + 1)

\* a dropCollection that forgets its handle before it asks the backend
dropCollectionEager(cache, be, collectionName, F, k, notFoundText) ==
  LET r == ClientDeleteCollection(be, collectionName, k \in F, notFoundText)
  IN IF r.ok THEN Done(cache \ {collectionName}, r.be, k + 1)
     ELSE IF r.err # "not found"
          THEN Throw(cache \ {collectionName}, r.be, k + 1, r.err)
     ELSE Done(cache \ {collectionName}, r.be, k + 1)

dropCollection(cache, be, collectionName, F, k, notFoundText) ==
  LET r == ClientDeleteCollection(be, collectionName, k \in F, notFoundText)
  IN IF r.ok THEN Done(cache \ {collectionName}, r.be, k + 1)
     ELSE IF r.err # "not found" THEN Throw(cache, r.be, k + 1, r.err)
     ELSE Done(cache, r.be, k + 1)

\* the metadatas entry insert builds for one document
Metadatas(doc) ==
  Spread([content |-> doc.content,
          relativePath |-> doc.relativePath,
          startLine |-> ToString(doc.startLine),
          endLine |-> ToString(doc.endLine),
          fileExtension |-> doc.fileExtension],
         doc.metadata)

insert(cache, be, collectionName, documents, F, onExisting) ==
  LET g == getOrCreateCollection(cache, be, collectionName, F, 1)
  IN IF ~g.ok THEN g
     ELSE LET ids == [i \in DOMAIN documents |-> documents[i].id]
              embeddings == [i \in DOMAIN documents |-> documents[i].vector]
              metadatas == [i \in DOMAIN documents |-> Metadatas(documents[i])]
              documents_text == [i \in DOMAIN documents |-> documents[i].content]
              a == CollectionAdd(g.be, collectionName, ids, embeddings, metadatas,
                                 documents_text, g.k \in F, onExisting)
          IN IF a.ok THEN Done(g.cache, a.be, g.k + 1)
             ELSE Throw(g.cache, a.be, g.k + 1, a.err)

\* delete that hands the backend no ids
deleteNoIds(cache, be, collectionName, ids, F) ==
  LET g == getOrCreateCollection(cache, be, collectionName, F, 1)
  IN IF ~g.ok THEN g
     ELSE LET r == CollectionDelete(g.be, collectionName, << >>, g.k \in F)
          IN IF r.ok THEN Done(g.cache, r.be, g.k + 1)
             ELSE Throw(g.cache, r.be, g.k + 1, r.err)

\* delete that empties the collection, whatever ids it is given
deleteAll(cache, be, collectionName, ids, F) ==
  LET g == getOrCreateCollection(cache, be, collectionName, F, 1)
  IN IF ~g.ok THEN g
     ELSE LET r == CollectionDelete(g.be, collectionName, ids, g.k \in F)
          IN IF r.ok
             THEN Done(g.cache, [r.be EXCEPT ![collectionName].docs = {}], g.k + 1)
             ELSE Throw(g.cache, r.be, g.k + 1, r.err)

delete(cache, be, collectionName, ids, F) ==
  LET g == getOrCreateCollection(cache, be, collectionName, F, 1)
  IN IF ~g.ok THEN g
     ELSE LET r == CollectionDelete(g.be, collectionName, ids, g.k \in F)
          IN IF r.ok THEN Done(g.cache, r.be, g.k + 1)
             ELSE Throw(g.cache, r.be, g.k + 1, r.err)

DefaultTopK == 10
DefaultLimit == 100

\* an outcome together with the values the method may return
Returned(o, vs) ==
  [ok |-> o.ok, err |-> o.err, cache |-> o.cache, be |-> o.be, k |-> o.k, vals |-> vs]

\* hasCollection: whatever the client's getOrCreateCollection throws is
\* caught and answered with false; the handle cache is not touched
hasCollection(cache, be, collectionName, F) ==
  LET r == ClientGetOrCreateCollection(be, collectionName, 1 \in F)
  IN IF r.ok THEN Returned(Done(cache, r.be, 2), { TRUE })
     ELSE Returned(Done(cache, r.be, 2), { FALSE })

\* a where clause that keeps one key of the filter only
buildWhereClauseOneKey(filter) ==
  IF ~filter.defined THEN Undefined
  ELSE IF DOMAIN filter.map = {} THEN Defined(<< >>)
  ELSE LET key == CHOOSE k \in DOMAIN filter.map : TRUE
       IN Defined(key :> Obj("$eq", filter.map[key]))

buildWhereClause(filter) ==
  IF ~filter.defined THEN Undefined
  ELSE Defined([key \in DOMAIN filter.map |-> Obj("$eq", filter.map[key])])

\* parseInt(s) || 0 on the decimal strings insert writes
ParseIntOr0(s) ==
  IF \E n \in 0..9 : ToString(n) = s THEN CHOOSE n \in 0..9 : ToString(n) = s ELSE 0

\* metadata.key || ''
FieldOrEmpty(metadata, key) == IF key \in DOMAIN metadata THEN metadata[key] ELSE ""

\* a hit that carries the backend distance as its score
HitRawDistance(row, queryVector) ==
  [document |-> [id |-> row.id,
                 vector |-> queryVector,
                 content |-> row.document,
                 relativePath |-> FieldOrEmpty(row.metadata, "relativePath"),
                 startLine |-> ParseIntOr0(FieldOrEmpty(row.metadata, "startLine")),
                 endLine |-> ParseIntOr0(FieldOrEmpty(row.metadata, "endLine")),
                 fileExtension |-> FieldOrEmpty(row.metadata, "fileExtension"),
                 metadata |-> row.metadata],
   score |-> row.distance]

\* one element of the list search returns
Hit(row, queryVector) ==
  [document |-> [id |-> row.id,
                 vector |-> queryVector,
                 content |-> row.document,
                 relativePath |-> FieldOrEmpty(row.metadata, "relativePath"),
                 startLine |-> ParseIntOr0(FieldOrEmpty(row.metadata, "startLine")),
                 endLine |-> ParseIntOr0(FieldOrEmpty(row.metadata, "endLine")),
                 fileExtension |-> FieldOrEmpty(row.metadata, "fileExtension"),
                 metadata |-> row.metadata],
   score |-> 1 - row.distance]

search(cache, be, collectionName, queryVector, options, F, multiWhere) ==
  LET g == getOrCreateCollection(cache, be, collectionName, F, 1)
  IN IF ~g.ok THEN Returned(g, { << >> })
     ELSE LET results == CollectionQuery(g.be, collectionName, queryVector,
                           IF options.topK # 0 THEN options.topK ELSE DefaultTopK,
                           buildWhereClause(options.filter), g.k \in F, multiWhere)
          IN IF ~results.ok
             THEN Returned(Throw(g.cache, results.be, g.k + 1, results.err), { << >> })
             ELSE Returned(Done(g.cache, results.be, g.k + 1),
                           { [index \in DOMAIN rows |-> Hit(rows[index], queryVector)] :
                             rows \in results.val })

\* the requests handed to hybridSearch: a dense one (a query vector) and a
\* lexical one (a query text); limit 0 stands for an omitted limit
DenseRequest(q, l) == [anns_field |-> "vector", data |-> q, limit |-> l]
LexicalRequest(t, l) == [anns_field |-> "sparse_vector", data |-> t, limit |-> l]

HybridVectors == { <<0>> }
QueryTexts == { "a", "b" }

HybridRequests ==
  { << >> }
    \cup { << LexicalRequest(t, 0) >> : t \in QueryTexts }
    \cup { << DenseRequest(q, l) >> : q \in HybridVectors, l \in TopKs }
    \cup { << DenseRequest(q, l), LexicalRequest(t, l) >> :
           q \in HybridVectors, l \in TopKs, t \in QueryTexts }

HybridSearchOptions == { [limit |-> l] : l \in TopKs }

\* searchRequests.find(req => req.anns_field === 'vector')
FindDense(searchRequests) ==
  LET at == { i \in DOMAIN searchRequests : searchRequests[i].anns_field = "vector" }
  IN IF at = {} THEN [found |-> FALSE]
     ELSE [found |-> TRUE,
           req |-> searchRequests[CHOOSE i \in at : \A j \in at : i <= j]]

\* a hybrid search that hands the dense hits back in reverse order
hybridSearchReversed(cache, be, collectionName, searchRequests, options, F, multiWhere) ==
  LET denseRequest == FindDense(searchRequests)
      denseResults ==
        search(cache, be, collectionName, denseRequest.req.data,
               [topK |-> IF options.limit # 0 THEN options.limit
                         ELSE denseRequest.req.limit,
                filter |-> Undefined], F, multiWhere)
  IN IF ~denseRequest.found
     THEN Returned(Throw(cache, be, 1, "no dense request"), { << >> })
     ELSE Returned(denseResults,
                   { [i \in DOMAIN hits |-> hits[Len(hits) + 1 - i]] :
                     hits \in denseResults.vals })

\* a hybrid search that keeps, of the dense hits, those whose text is the
\* data of the lexical request, when there is one
hybridSearchLexical(cache, be, collectionName, searchRequests, options, F, multiWhere) ==
  LET denseRequest == FindDense(searchRequests)
      denseResults ==
        search(cache, be, collectionName, denseRequest.req.data,
               [topK |-> IF options.limit # 0 THEN options.limit
                         ELSE denseRequest.req.limit,
                filter |-> Undefined], F, multiWhere)
      lexical == { i \in DOMAIN searchRequests :
                     searchRequests[i].anns_field # "vector" }
      Keep(hit) == \A i \in lexical : hit.document.content = searchRequests[i].data
  IN IF ~denseRequest.found
     THEN Returned(Throw(cache, be, 1,
                         "Dense vector search request is required for hybrid search"),
                   { << >> })
     ELSE Returned(denseResults,
                   { SelectSeq(hits, Keep) : hits \in denseResults.vals })

hybridSearch(cache, be, collectionName, searchRequests, options, F, multiWhere) ==
  LET denseRequest == FindDense(searchRequests)
  IN IF ~denseRequest.found
     THEN Returned(Throw(cache, be, 1,
                         "Dense vector search request is required for hybrid search"),
                   { << >> })
     ELSE LET denseResults ==
                search(cache, be, collectionName, denseRequest.req.data,
                       [topK |-> IF options.limit # 0 THEN options.limit
                                 ELSE denseRequest.req.limit,
                        filter |-> Undefined], F, multiWhere)
          IN Returned(denseResults,
                      { [i \in DOMAIN hits |->
                           [document |-> hits[i].document, score |-> hits[i].score]] :
                        hits \in denseResults.vals })

\* filter strings are sequences of lexemes; "=" and " " are lexemes of
\* their own
RECURSIVE Split(_, _)
Split(s, sep) ==
  IF \A i \in DOMAIN s : s[i] # sep THEN << s >>
  ELSE LET i == CHOOSE i \in DOMAIN s : s[i] = sep /\ \A j \in 1..(i - 1) : s[j] # sep
       IN << SubSeq(s, 1, i - 1) >> \o Split(SubSeq(s, i + 1, Len(s)), sep)

RECURSIVE Trim(_)
Trim(s) ==
  IF Len(s) = 0 THEN s
  ELSE IF s[1] = " " THEN Trim(Tail(s))
  ELSE IF s[Len(s)] = " " THEN Trim(SubSeq(s, 1, Len(s) - 1))
  ELSE s

RECURSIVE Join(_)
Join(s) == IF Len(s) = 0 THEN "" ELSE s[1] \o Join(Tail(s))

Words == {"language", "content", "go", "ts", "a", "b", "$ne"}
Quote(w) == "\"" \o w \o "\""
IsString(t) == \E w \in Words : t = Quote(w)
Unquote(t) == CHOOSE w \in Words : t = Quote(w)

\* JSON.parse on the JSON texts that occur: {"k":"v"} and {"k":{"o":"v"}};
\* every other string is a SyntaxError
JSONParse(s) ==
  IF /\ Len(s) = 5 /\ s[1] = "{" /\ IsString(s[2]) /\ s[3] = ":"
     /\ IsString(s[4]) /\ s[5] = "}"
  THEN [ok |-> TRUE, value |-> (Unquote(s[2]) :> Lit(Unquote(s[4])))]
  ELSE IF /\ Len(s) = 9 /\ s[1] = "{" /\ IsString(s[2]) /\ s[3] = ":" /\ s[4] = "{"
          /\ IsString(s[5]) /\ s[6] = ":" /\ IsString(s[7]) /\ s[8] = "}" /\ s[9] = "}"
  THEN [ok |-> TRUE,
        value |-> (Unquote(s[2]) :> Obj(Unquote(s[5]), Lit(Unquote(s[7]))))]
  ELSE [ok |-> FALSE, value |-> << >>]

parseFilterExpression(filter) ==
  LET parsed == JSONParse(filter)
  IN IF parsed.ok THEN Defined(parsed.value)
     ELSE LET parts == Split(filter, "=")
          IN IF Len(parts) = 2
             THEN Defined(Join(Trim(parts[1])) :> Obj("$eq", Lit(Join(Trim(parts[2])))))
             ELSE Undefined

\* one element of the list query returns
QueryRow(r) == Spread([id |-> r.id, content |-> r.document], r.metadata)

query(cache, be, collectionName, filter, limit, F, multiWhere) ==
  LET g == getOrCreateCollection(cache, be, collectionName, F, 1)
  IN IF ~g.ok THEN Returned(g, { << >> })
     ELSE LET results == CollectionGet(g.be, collectionName, parseFilterExpression(filter),
                           IF limit # 0 THEN limit ELSE DefaultLimit, g.k \in F, multiWhere)
          IN IF ~results.ok
             THEN Returned(Throw(g.cache, results.be, g.k + 1, results.err), { << >> })
             ELSE Returned(Done(g.cache, results.be, g.k + 1),
                           { [index \in DOMAIN rows |-> QueryRow(rows[index])] :
                             rows \in results.val })


(***************************************************************************)
(* Actions: one per adapter method                                         *)
(***************************************************************************)
Finish(o, call, res) ==
  /\ collections' = o.cache
  /\ backend' = o.be
  /\ op' = call
  /\ ret' = IF o.ok THEN "ok" ELSE "throw"
  /\ err' = o.err
  /\ result' = res
  /\ UNCHANGED <<flows, config>>

CreateCollection ==
  \E n \in Names, d \in DimensionArguments :
    \E out \in { createCollection(collections, backend, n, d, F, 1) : F \in FailPatterns } :
      Finish(out, [f |-> "createCollection", c |-> n, dimension |-> d], << >>)

DropCollection ==
  \E n \in Names :
    \E out \in { dropCollection(collections, backend, n, F, 1, t) :
                 F \in FailPatterns, t \in BOOLEAN } :
      Finish(out, [f |-> "dropCollection", c |-> n], << >>)

Insert ==
  \E n \in Names, b \in Batches :
    \E out \in { insert(collections, backend, n, b, F, build.addExisting) :
                 F \in FailPatterns, build \in Builds } :
      Finish(out, [f |-> "insert", c |-> n, documents |-> b], << >>)

Delete ==
  \E n \in Names, ids \in IdLists :
    \E out \in { delete(collections, backend, n, ids, F) : F \in FailPatterns } :
      Finish(out, [f |-> "delete", c |-> n, ids |-> ids], << >>)

Search ==
  \E n \in Names, q \in QueryVectors, o \in SearchOptions :
    \E out \in { search(collections, backend, n, q, o, F, build.multiWhere) :
                 F \in FailPatterns, build \in Builds } :
      \E r \in out.vals :
        Finish(out, [f |-> "search", c |-> n, queryVector |-> q, options |-> o], r)

Query ==
  \E n \in Names, s \in FilterStrings, l \in TopKs :
    \E out \in { query(collections, backend, n, s, l, F, build.multiWhere) :
                 F \in FailPatterns, build \in Builds } :
      \E r \in out.vals :
        Finish(out, [f |-> "query", c |-> n, filter |-> s, limit |-> l], r)

HybridSearch ==
  \E n \in Names, reqs \in HybridRequests, o \in HybridSearchOptions :
    \E out \in { hybridSearch(collections, backend, n, reqs, o, F, build.multiWhere) :
                 F \in FailPatterns, build \in Builds } :
      \E r \in out.vals :
        Finish(out, [f |-> "hybridSearch", c |-> n, searchRequests |-> reqs,
                     options |-> o], r)

\* failed: the backend call of this hasCollection failed
HasCollection ==
  \E n \in Names, F \in FailPatterns :
    \E out \in { hasCollection(collections, backend, n, F) } :
      \E r \in out.vals :
        Finish(out, [f |-> "hasCollection", c |-> n, failed |-> (1 \in F)], r)

\* listCollections: the names of the client's listing, in its order;
\* failed: the backend call failed
ListCollections ==
  \E F \in FailPatterns :
    \E out \in { IF 1 \in F THEN Throw(collections, backend, 2, "connection refused")
                 ELSE Done(collections, backend, 2) } :
      \E r \in IF out.ok
               THEN Orderings(listCollections(backend),
                              [n \in listCollections(backend) |-> 0])
               ELSE { << >> } :
        Finish(out, [f |-> "listCollections", c |-> "", failed |-> (1 \in F)], r)

Init ==
  /\ collections = {}
  /\ backend = << >>
  /\ op = [f |-> "none"]
  /\ ret = "ok"
  /\ err = ""
  /\ result = << >>
  /\ flows = << >>
  /\ config = [model |-> "text-embedding-3-small"]

Next ==
  \/ CreateCollection
  \/ DropCollection
  \/ Insert
  \/ Delete
  \/ Search
  \/ Query
  \/ HasCollection
  \/ HybridSearch
  \/ ListCollections

Spec == Init /\ [][Next]_vars

(***************************************************************************)
(* Concurrent createCollection: every caller runs the method as its own    *)
(* flow, and the flows interleave at each await.  A backend request takes  *)
(* effect on the server at some point between the call and the resumption  *)
(* of the flow (Serve steps); the code after the await runs when the flow  *)
(* is resumed (Resume steps).                                              *)
(***************************************************************************)
NumCallers == 2
Callers == 1 .. NumCallers

\* a flow before its first await; handle is the declared dimension carried
\* by the Collection object the flow received (0: none, -1: no handle yet),
\* created: a request of the flow created the collection on the server,
\* exists: its client.createCollection was answered 'already exists'
Started(d) ==
  [pc |-> "createCollection", dimension |-> d, reply |-> "", handle |-> -1,
   created |-> FALSE, exists |-> FALSE, ret |-> "", err |-> ""]

\* the catch clause of createCollection: where the flow goes when the
\* awaited client.createCollection settles
createCollectionNoCatchSettled(ok, e) ==
  IF ok THEN "set" ELSE "throw"

createCollectionSettled(ok, e) ==
  IF ok THEN "set"
  ELSE IF e = "already exists" THEN "getOrCreateCollection"
  ELSE "throw"

Update(i, f) == flows' = [flows EXCEPT ![i] = f]

\* the server handles the client.createCollection request of flow i
ServeCreate(i) ==
  /\ flows[i].pc = "createCollection"
  /\ \E down \in BOOLEAN :
       LET r == ClientCreateCollection(backend, "c1", flows[i].dimension, down)
       IN /\ backend' = r.be
          /\ Update(i, [flows[i] EXCEPT
                          !.pc = "awaitCreate",
                          !.reply = IF r.ok THEN "ok" ELSE r.err,
                          !.created = r.ok,
                          !.exists = (r.err = "already exists"),
                          !.handle = IF r.ok THEN r.be["c1"].declared ELSE -1])
  /\ UNCHANGED <<collections, op, ret, err, result, config>>

\* flow i resumes after await client.createCollection
ResumeCreate(i) ==
  /\ flows[i].pc = "awaitCreate"
  /\ LET to == createCollectionSettled(flows[i].reply = "ok", flows[i].reply)
     IN \/ /\ to = "set"
           /\ collections' = collections \cup {"c1"}
           /\ Update(i, [flows[i] EXCEPT !.pc = "done", !.ret = "ok"])
        \/ /\ to = "getOrCreateCollection"
           /\ Update(i, [flows[i] EXCEPT !.pc = "getOrCreateCollection"])
           /\ UNCHANGED collections
        \/ /\ to = "throw"
           /\ Update(i, [flows[i] EXCEPT !.pc = "done", !.ret = "throw",
                                         !.err = flows[i].reply])
           /\ UNCHANGED collections
  /\ UNCHANGED <<backend, op, ret, err, result, config>>

\* the server handles the client.getOrCreateCollection request of flow i
ServeGetOrCreate(i) ==
  /\ flows[i].pc = "getOrCreateCollection"
  /\ \E down \in BOOLEAN :
       LET r == ClientGetOrCreateCollection(backend, "c1", down)
       IN /\ backend' = r.be
          /\ Update(i, [flows[i] EXCEPT
                          !.pc = "awaitGetOrCreate",
                          !.reply = IF r.ok THEN "ok" ELSE r.err,
                          !.created = r.ok /\ "c1" \notin DOMAIN backend,
                          !.handle = IF r.ok THEN r.be["c1"].declared ELSE -1])
  /\ UNCHANGED <<collections, op, ret, err, result, config>>

\* flow i resumes after await client.getOrCreateCollection in the catch
ResumeGetOrCreate(i) ==
  /\ flows[i].pc = "awaitGetOrCreate"
  /\ IF flows[i].reply = "ok"
     THEN /\ collections' = collections \cup {"c1"}
          /\ Update(i, [flows[i] EXCEPT !.pc = "done", !.ret = "ok"])
     ELSE /\ Update(i, [flows[i] EXCEPT !.pc = "done", !.ret = "throw",
                                        !.err = flows[i].reply])
          /\ UNCHANGED collections
  /\ UNCHANGED <<backend, op, ret, err, result, config>>

\* every caller has called createCollection("c1", d) for an absent name
InitCreate ==
  /\ collections = {}
  /\ backend = << >>
  /\ op = [f |-> "none"]
  /\ ret = "ok"
  /\ err = ""
  /\ result = << >>
  /\ flows \in [Callers -> { Started(d) : d \in Dimensions }]
  /\ config = [model |-> "text-embedding-3-small"]

NextCreate ==
  \E i \in Callers :
    \/ ServeCreate(i)
    \/ ResumeCreate(i)
    \/ ServeGetOrCreate(i)
    \/ ResumeGetOrCreate(i)

SpecCreate == InitCreate /\ [][NextCreate]_vars

(***************************************************************************)
(* OpenRouterEmbedding: the embedding provider.  A text is a body and its  *)
(* size in tokens; a vector the backend returns is known by the text it    *)
(* embeds and by its length.  The backend's behaviour during one call is   *)
(* the sequence of answers it would give to the successive requests of     *)
(* that call.                                                              *)
(***************************************************************************)
MaxTexts == 2
MaxAttempts == 2

maxTokens == 8192

Texts == { [body |-> "a", tokens |-> 1], [body |-> "b", tokens |-> 9000] }
TextBatches == SeqsUpTo(Texts, MaxTexts)

\* the model -> dimension table of getDimension
modelDimensions ==
  [m \in { "nomic-ai/nomic-embed-text-v1.5", "nomic-ai/nomic-embed-text-v1",
           "text-embedding-3-small", "text-embedding-3-large",
           "text-embedding-ada-002", "voyage-01", "voyage-code-2",
           "voyage-code-3", "gte-large", "gte-base", "gte-small",
           "bge-large-en-v1.5", "bge-base-en-v1.5", "bge-small-en-v1.5",
           "mxbai-embed-large", "mxbai-embed-base" } |->
     CASE m \in { "nomic-ai/nomic-embed-text-v1.5", "nomic-ai/nomic-embed-text-v1",
                  "gte-base", "bge-base-en-v1.5", "mxbai-embed-base" } -> 768
       [] m \in { "text-embedding-3-small", "text-embedding-ada-002",
                  "voyage-code-2", "voyage-code-3" } -> 1536
       [] m = "text-embedding-3-large" -> 3072
       [] m \in { "voyage-01", "gte-large", "bge-large-en-v1.5",
                  "mxbai-embed-large" } -> 1024
       [] m \in { "gte-small", "bge-small-en-v1.5" } -> 384]

DefaultModelDimension == 1536

\* the static list of model names the provider advertises
getSupportedModels ==
  { "nomic-ai/nomic-embed-text-v1.5",
    "nomic-ai/nomic-embed-text-v1",
    "text-embedding-3-small",
    "text-embedding-3-large",
    "text-embedding-ada-002",
    "voyage-01",
    "voyage-code-2",
    "voyage-code-3",
    "gte-large",
    "gte-base",
    "gte-small",
    "bge-large-en-v1.5",
    "bge-base-en-v1.5",
    "bge-small-en-v1.5",
    "mxbai-embed-large",
    "mxbai-embed-base" }

\* the dimension the deployment guides state for each model they list
DocumentedModels ==
  << [model |-> "nomic-ai/nomic-embed-text-v1.5", dimensions |-> 768],
     [model |-> "nomic-ai/nomic-embed-text-v1", dimensions |-> 768],
     [model |-> "bge-large-en-v1.5", dimensions |-> 1024],
     [model |-> "bge-base-en-v1.5", dimensions |-> 768],
     [model |-> "bge-small-en-v1.5", dimensions |-> 384],
     [model |-> "mxbai-embed-large", dimensions |-> 1024],
     [model |-> "mxbai-embed-base", dimensions |-> 768],
     [model |-> "text-embedding-3-small", dimensions |-> 1536],
     [model |-> "text-embedding-3-large", dimensions |-> 3072],
     [model |-> "text-embedding-ada-002", dimensions |-> 1536],
     [model |-> "voyage-01", dimensions |-> 1024],
     [model |-> "voyage-code-2", dimensions |-> 1536],
     [model |-> "voyage-code-3", dimensions |-> 1536],
     [model |-> "gte-large", dimensions |-> 1024],
     [model |-> "gte-base", dimensions |-> 768],
     [model |-> "gte-small", dimensions |-> 384] >>

\* an embedding model the backend serves that the table does not list
OtherModels == { "baai/bge-m3" }

\* the models providers are configured with
Models == { "text-embedding-3-small", "gte-small" } \cup OtherModels

\* a lookup that answers the default for every model
getDimensionDefault(cfg) == DefaultModelDimension

getDimension(cfg) ==
  IF cfg.model \in DOMAIN modelDimensions
  THEN modelDimensions[cfg.model]
  ELSE DefaultModelDimension

\* the length of the vectors the backend produces with a model
BackendDimension(model) ==
  IF model \in DOMAIN modelDimensions THEN modelDimensions[model] ELSE 1024

\* Embedding.preprocessTexts of the base class: a text over the token
\* budget is cut to the budget
preprocessTexts(texts) ==
  [i \in DOMAIN texts |->
     IF texts[i].tokens > maxTokens
     THEN [texts[i] EXCEPT !.tokens = maxTokens]
     ELSE texts[i]]

\* one answer of the backend: status 0 is a request that got no response
\* (fetch rejects); a 200 answer has one of the body shapes
Shapes == { "inOrder", "reversed", "short", "noData" }
Answers ==
  { [status |-> st, shape |-> "none"] : st \in {0, 401, 404, 429, 500} }
    \cup { [status |-> 200, shape |-> sh] : sh \in Shapes }

Transient(answer) == answer.status \in {0, 429}

\* the answers to the successive requests of one call: the backend fails
\* transiently some times, then gives the last answer
Behaviours ==
  { b \in SeqsUpTo(Answers, MaxAttempts) :
      /\ Len(b) >= 1
      /\ \A i \in 1 .. Len(b) - 1 : Transient(b[i]) }

statusText(status) ==
  CASE status = 401 -> "Unauthorized"
    [] status = 404 -> "Not Found"
    [] status = 429 -> "Too Many Requests"
    [] status = 500 -> "Internal Server Error"
    [] OTHER -> "OK"

Reverse(q) == [i \in DOMAIN q |-> q[Len(q) + 1 - i]]

\* the data array of a 200 answer to POST /embeddings {model, input}; every
\* item carries the index of the input it embeds
ReplyData(model, input, shape) ==
  LET items == [i \in DOMAIN input |->
                  [index |-> i - 1,
                   embedding |-> [of |-> input[i].body, tokens |-> input[i].tokens,
                                  length |-> BackendDimension(model)]]]
  IN CASE shape = "reversed" -> Reverse(items)
       [] shape = "short" -> SubSeq(items, 1, Len(items) - 1)
       [] OTHER -> items

Error(name, message) == [name |-> name, message |-> message]
NoError == Error("", "")

Returns(value, fetches) ==
  [ok |-> TRUE, err |-> NoError, val |-> value, fetches |-> fetches]
Throws(e, fetches) ==
  [ok |-> FALSE, err |-> e, val |-> << >>, fetches |-> fetches]

embedBatch(cfg, texts, answers) ==
  LET processedTexts == preprocessTexts(texts)
      response == answers[1]
  IN IF response.status = 0 THEN Throws(Error("TypeError", "fetch failed"), 1)
     ELSE IF response.status # 200
     THEN Throws(Error("Error", "OpenRouter API error: "
                                  \o ToString(response.status) \o " "
                                  \o statusText(response.status)), 1)
     ELSE IF response.shape = "noData"
     THEN Throws(Error("TypeError", "Cannot read properties of undefined"), 1)
     ELSE LET data == ReplyData(cfg.model, processedTexts, response.shape)
          IN Returns([i \in DOMAIN data |->
                        [vector |-> data[i].embedding,
                         dimension |-> data[i].embedding.length]], 1)

\* embeddings[0] of an empty array is undefined
embed(cfg, text, answers) ==
  LET embeddings == embedBatch(cfg, << text >>, answers)
  IN IF ~embeddings.ok THEN embeddings
     ELSE IF Len(embeddings.val) = 0
     THEN Returns([defined |-> FALSE], embeddings.fetches)
     ELSE Returns([defined |-> TRUE, vector |-> embeddings.val[1].vector,
                   dimension |-> embeddings.val[1].dimension],
                  embeddings.fetches)

detectDimension(cfg, answers) == Returns(getDimension(cfg), 0)

Embed ==
  \E text \in Texts, answers \in Behaviours :
    LET o == embed(config, text, answers)
    IN /\ op' = [f |-> "embed", texts |-> << text >>, answers |-> answers,
                 fetches |-> o.fetches]
       /\ ret' = IF o.ok THEN "ok" ELSE "throw"
       /\ err' = o.err
       /\ result' = o.val
       /\ UNCHANGED <<collections, backend, flows, config>>

EmbedBatch ==
  \E texts \in TextBatches, answers \in Behaviours :
    LET o == embedBatch(config, texts, answers)
    IN /\ op' = [f |-> "embedBatch", texts |-> texts, answers |-> answers,
                 fetches |-> o.fetches]
       /\ ret' = IF o.ok THEN "ok" ELSE "throw"
       /\ err' = o.err
       /\ result' = o.val
       /\ UNCHANGED <<collections, backend, flows, config>>

DetectDimension ==
  \E answers \in Behaviours :
    LET o == detectDimension(config, answers)
    IN /\ op' = [f |-> "detectDimension", texts |-> << >>, answers |-> answers,
                 fetches |-> o.fetches]
       /\ ret' = IF o.ok THEN "ok" ELSE "throw"
       /\ err' = o.err
       /\ result' = o.val
       /\ UNCHANGED <<collections, backend, flows, config>>

\* a provider constructed for one of the models, no call made yet
InitEmbed ==
  /\ collections = {}
  /\ backend = << >>
  /\ op = [f |-> "none"]
  /\ ret = "ok"
  /\ err = NoError
  /\ result = << >>
  /\ flows = << >>
  /\ config \in { [model |-> m] : m \in Models }

NextEmbed ==
  \/ Embed
  \/ EmbedBatch
  \/ DetectDimension

SpecEmbed == InitEmbed /\ [][NextEmbed]_vars

(***************************************************************************)
(* Concurrent insert calls: one flow per caller, one step per await        *)
(***************************************************************************)
NumWriters == 2
Writers == 1..NumWriters

\* a caller that has called insert("c1", documents) and has not run yet;
\* applied is the position of its add among the adds the backend handled
Inserting(documents) ==
  [pc |-> "insert", documents |-> documents, reply |-> "", applied |-> 0,
   ret |-> "", err |-> ""]

\* the documents arguments of the writers: every single document, and one
\* batch of two documents that differ in every field
WriterBatches ==
  { <<d>> : d \in Docs }
    \cup { << Document("x", PayloadB), Document("y", PayloadA) >> }

\* the arrays insert maps from its documents, index by index, but with the
\* texts in the opposite order
AddRequestMisaligned(documents) ==
  [ids |-> [k \in DOMAIN documents |-> documents[k].id],
   embeddings |-> [k \in DOMAIN documents |-> documents[k].vector],
   metadatas |-> [k \in DOMAIN documents |-> Metadatas(documents[k])],
   documents |-> [k \in DOMAIN documents |->
                    documents[Len(documents) + 1 - k].content]]

\* the one request of insert: the arrays it maps from its documents, index
\* by index
AddRequest(documents) ==
  [ids |-> [k \in DOMAIN documents |-> documents[k].id],
   embeddings |-> [k \in DOMAIN documents |-> documents[k].vector],
   metadatas |-> [k \in DOMAIN documents |-> Metadatas(documents[k])],
   documents |-> [k \in DOMAIN documents |-> documents[k].content]]

\* how many add requests the backend has handled so far
Handled == Cardinality({ j \in Writers : flows[j].applied # 0 })

\* flow i enters insert and the private getOrCreateCollection: a cached
\* name goes on to collection.add, an uncached one asks the client
EnterInsert(i) ==
  /\ flows[i].pc = "insert"
  /\ Update(i, [flows[i] EXCEPT
                  !.pc = IF "c1" \in collections THEN "add"
                         ELSE "getOrCreateCollection"])
  /\ UNCHANGED <<collections, backend, op, ret, err, result, config>>

\* the server handles the client.getOrCreateCollection request of flow i
ServeLookup(i) ==
  /\ flows[i].pc = "getOrCreateCollection"
  /\ \E down \in BOOLEAN :
       LET r == ClientGetOrCreateCollection(backend, "c1", down)
       IN /\ backend' = r.be
          /\ Update(i, [flows[i] EXCEPT
                          !.pc = "awaitGetOrCreate",
                          !.reply = IF r.ok THEN "ok" ELSE r.err])
  /\ UNCHANGED <<collections, op, ret, err, result, config>>

\* flow i resumes after await client.getOrCreateCollection: the handle is
\* cached, or the catch clause falls back to createCollection(name, 1536)
ResumeLookup(i) ==
  /\ flows[i].pc = "awaitGetOrCreate"
  /\ IF flows[i].reply = "ok"
     THEN /\ collections' = collections \cup {"c1"}
          /\ Update(i, [flows[i] EXCEPT !.pc = "add"])
     ELSE /\ Update(i, [flows[i] EXCEPT !.pc = "createCollection"])
          /\ UNCHANGED collections
  /\ UNCHANGED <<backend, op, ret, err, result, config>>

\* the server handles the client.createCollection request of the fallback
ServeFallbackCreate(i) ==
  /\ flows[i].pc = "createCollection"
  /\ \E down \in BOOLEAN :
       LET r == ClientCreateCollection(backend, "c1", FallbackDimension, down)
       IN /\ backend' = r.be
          /\ Update(i, [flows[i] EXCEPT
                          !.pc = "awaitCreate",
                          !.reply = IF r.ok THEN "ok" ELSE r.err])
  /\ UNCHANGED <<collections, op, ret, err, result, config>>

\* flow i resumes after await client.createCollection of the fallback
ResumeFallbackCreate(i) ==
  /\ flows[i].pc = "awaitCreate"
  /\ LET to == createCollectionSettled(flows[i].reply = "ok", flows[i].reply)
     IN \/ /\ to = "set"
           /\ collections' = collections \cup {"c1"}
           /\ Update(i, [flows[i] EXCEPT !.pc = "add"])
        \/ /\ to = "getOrCreateCollection"
           /\ Update(i, [flows[i] EXCEPT !.pc = "fallbackGetOrCreate"])
           /\ UNCHANGED collections
        \/ /\ to = "throw"
           /\ Update(i, [flows[i] EXCEPT !.pc = "done", !.ret = "throw",
                                         !.err = flows[i].reply])
           /\ UNCHANGED collections
  /\ UNCHANGED <<backend, op, ret, err, result, config>>

\* the server handles the client.getOrCreateCollection request the catch
\* clause of the fallback createCollection makes
ServeFallbackGet(i) ==
  /\ flows[i].pc = "fallbackGetOrCreate"
  /\ \E down \in BOOLEAN :
       LET r == ClientGetOrCreateCollection(backend, "c1", down)
       IN /\ backend' = r.be
          /\ Update(i, [flows[i] EXCEPT
                          !.pc = "awaitFallbackGetOrCreate",
                          !.reply = IF r.ok THEN "ok" ELSE r.err])
  /\ UNCHANGED <<collections, op, ret, err, result, config>>

\* flow i resumes after that request
ResumeFallbackGet(i) ==
  /\ flows[i].pc = "awaitFallbackGetOrCreate"
  /\ IF flows[i].reply = "ok"
     THEN /\ collections' = collections \cup {"c1"}
          /\ Update(i, [flows[i] EXCEPT !.pc = "add"])
     ELSE /\ Update(i, [flows[i] EXCEPT !.pc = "done", !.ret = "throw",
                                        !.err = flows[i].reply])
          /\ UNCHANGED collections
  /\ UNCHANGED <<backend, op, ret, err, result, config>>

\* the server handles the collection.add request of flow i: the four
\* arrays insert maps from its documents travel in this one request
ServeAdd(i) ==
  /\ flows[i].pc = "add"
  /\ \E down \in BOOLEAN, build \in Builds :
       LET request == AddRequest(flows[i].documents)
           a == CollectionAdd(backend, "c1", request.ids, request.embeddings,
                              request.metadatas, request.documents, down,
                              build.addExisting)
       IN /\ backend' = a.be
          /\ Update(i, [flows[i] EXCEPT
                          !.pc = "awaitAdd",
                          !.reply = IF a.ok THEN "ok" ELSE a.err,
                          !.applied = IF down THEN 0 ELSE Handled + 1])
  /\ UNCHANGED <<collections, op, ret, err, result, config>>

\* flow i resumes after await collection.add
ResumeAdd(i) ==
  /\ flows[i].pc = "awaitAdd"
  /\ IF flows[i].reply = "ok"
     THEN Update(i, [flows[i] EXCEPT !.pc = "done", !.ret = "ok"])
     ELSE Update(i, [flows[i] EXCEPT !.pc = "done", !.ret = "throw",
                                     !.err = flows[i].reply])
  /\ UNCHANGED <<collections, backend, op, ret, err, result, config>>

\* every writer has called insert("c1", documents); the collection is
\* either unknown to adapter and backend, or was created with dimension 1
InitInsert ==
  /\ \/ collections = {} /\ backend = << >>
     \/ collections = {"c1"} /\ backend = [n \in {"c1"} |-> NewCollection(1)]
  /\ op = [f |-> "none"]
  /\ ret = "ok"
  /\ err = ""
  /\ result = << >>
  /\ flows \in [Writers -> { Inserting(b) : b \in WriterBatches }]
  /\ config = [model |-> "text-embedding-3-small"]

NextInsert ==
  \E i \in Writers :
    \/ EnterInsert(i)
    \/ ServeLookup(i)
    \/ ResumeLookup(i)
    \/ ServeFallbackCreate(i)
    \/ ResumeFallbackCreate(i)
    \/ ServeFallbackGet(i)
    \/ ResumeFallbackGet(i)
    \/ ServeAdd(i)
    \/ ResumeAdd(i)

SpecInsert == InitInsert /\ [][NextInsert]_vars

(***************************************************************************)
(* Concurrent calls of every kind on one adapter instance, the backend's   *)
(* only client.  The cache maps a name to the handle it holds; a handle    *)
(* is the id of the backend collection it was obtained for, and ids are    *)
(* never reused.                                                           *)
(***************************************************************************)
NumFlows == 2
Flows == 1..NumFlows

\* the calls that race, all on the name "c1"
Call(f) ==
  [f |-> f, dimension |-> 1, documents |-> << Document("x", PayloadA) >>,
   queryVector |-> <<0>>, ids |-> << "x" >>, filter |-> << "language", "=", "go" >>]

\* the methods that race, in the order callers are listed by
Methods ==
  << "createCollection", "dropCollection", "insert", "search", "delete", "query" >>

MethodIndex(f) == CHOOSE k \in DOMAIN Methods : Methods[k] = f

Calls == { Call(Methods[k]) : k \in DOMAIN Methods }

\* a caller that has made its call and has not run yet; handle is the
\* collection object the flow holds (-1: none), made whether one of its
\* requests brought a collection into existence
Called(call) ==
  [call |-> call, pc |-> "called", reply |-> "", handle |-> -1, made |-> FALSE,
   ret |-> "", err |-> ""]

\* the id the backend gives to the next collection it creates
NextId == Cardinality({ j \in Flows : flows[j].made }) + 1

\* the backend state with the id of a newly created collection filled in
Identified(be, id) ==
  [n \in DOMAIN be |->
     IF "id" \in DOMAIN be[n] THEN be[n] ELSE Spread(be[n], [id |-> id])]

\* this.collections.set(name, collection)
CacheSet(handle) == [n \in DOMAIN collections \cup {"c1"} |->
                       IF n = "c1" THEN handle ELSE collections[n]]

\* this.collections.delete(name)
CacheDelete == [n \in DOMAIN collections \ {"c1"} |-> collections[n]]

\* where a flow goes once it holds its collection: createCollection
\* returns, the other methods go on to their request on the handle
Resolved(i) == IF flows[i].call.f = "createCollection" THEN "done" ELSE "request"

\* flow i starts to run, up to its first await
Enter(i) ==
  /\ flows[i].pc = "called"
  /\ LET f == flows[i].call.f
     IN Update(i, [flows[i] EXCEPT
          !.pc = IF f = "createCollection" THEN "createCollection"
                 ELSE IF f = "dropCollection" THEN "deleteCollection"
                 ELSE IF "c1" \in DOMAIN collections THEN "request"
                 ELSE "getOrCreateCollection",
          !.handle = IF f \notin { "createCollection", "dropCollection" }
                        /\ "c1" \in DOMAIN collections
                     THEN collections["c1"] ELSE -1])
  /\ UNCHANGED <<collections, backend, op, ret, err, result, config>>

\* the server handles client.getOrCreateCollection of the private
\* getOrCreateCollection of flow i
LookupServed(i) ==
  /\ flows[i].pc = "getOrCreateCollection"
  /\ \E down \in BOOLEAN :
       LET r == ClientGetOrCreateCollection(backend, "c1", down)
           be == Identified(r.be, NextId)
       IN /\ backend' = be
          /\ Update(i, [flows[i] EXCEPT
                          !.pc = "awaitGetOrCreate",
                          !.reply = IF r.ok THEN "ok" ELSE r.err,
                          !.handle = IF r.ok THEN be["c1"].id ELSE -1,
                          !.made = r.ok /\ "c1" \notin DOMAIN backend])
  /\ UNCHANGED <<collections, op, ret, err, result, config>>

\* flow i resumes after that await: the handle is cached, or the catch
\* clause calls createCollection(name, 1536)
LookupResumed(i) ==
  /\ flows[i].pc = "awaitGetOrCreate"
  /\ IF flows[i].reply = "ok"
     THEN /\ collections' = CacheSet(flows[i].handle)
          /\ Update(i, [flows[i] EXCEPT !.pc = "request"])
     ELSE /\ Update(i, [flows[i] EXCEPT !.pc = "createCollection"])
          /\ UNCHANGED collections
  /\ UNCHANGED <<backend, op, ret, err, result, config>>

\* the server handles client.createCollection of flow i (its own call, or
\* the fallback of the private getOrCreateCollection)
CreateServed(i) ==
  /\ flows[i].pc = "createCollection"
  /\ \E down \in BOOLEAN :
       LET r == ClientCreateCollection(backend, "c1",
                  IF flows[i].call.f = "createCollection"
                  THEN flows[i].call.dimension ELSE FallbackDimension, down)
           be == Identified(r.be, NextId)
       IN /\ backend' = be
          /\ Update(i, [flows[i] EXCEPT
                          !.pc = "awaitCreate",
                          !.reply = IF r.ok THEN "ok" ELSE r.err,
                          !.handle = IF r.ok THEN be["c1"].id ELSE -1,
                          !.made = r.ok])
  /\ UNCHANGED <<collections, op, ret, err, result, config>>

\* flow i resumes after await client.createCollection
CreateResumed(i) ==
  /\ flows[i].pc = "awaitCreate"
  /\ LET to == createCollectionSettled(flows[i].reply = "ok", flows[i].reply)
     IN \/ /\ to = "set"
           /\ collections' = CacheSet(flows[i].handle)
           /\ Update(i, [flows[i] EXCEPT
                           !.pc = Resolved(i),
                           !.ret = IF Resolved(i) = "done" THEN "ok" ELSE ""])
        \/ /\ to = "getOrCreateCollection"
           /\ Update(i, [flows[i] EXCEPT !.pc = "catchGetOrCreate"])
           /\ UNCHANGED collections
        \/ /\ to = "throw"
           /\ Update(i, [flows[i] EXCEPT !.pc = "done", !.ret = "throw",
                                         !.err = flows[i].reply])
           /\ UNCHANGED collections
  /\ UNCHANGED <<backend, op, ret, err, result, config>>

\* the server handles the client.getOrCreateCollection the catch clause of
\* createCollection makes
CatchServed(i) ==
  /\ flows[i].pc = "catchGetOrCreate"
  /\ \E down \in BOOLEAN :
       LET r == ClientGetOrCreateCollection(backend, "c1", down)
           be == Identified(r.be, NextId)
       IN /\ backend' = be
          /\ Update(i, [flows[i] EXCEPT
                          !.pc = "awaitCatchGetOrCreate",
                          !.reply = IF r.ok THEN "ok" ELSE r.err,
                          !.handle = IF r.ok THEN be["c1"].id ELSE -1,
                          !.made = r.ok /\ "c1" \notin DOMAIN backend])
  /\ UNCHANGED <<collections, op, ret, err, result, config>>

\* flow i resumes after that await
CatchResumed(i) ==
  /\ flows[i].pc = "awaitCatchGetOrCreate"
  /\ IF flows[i].reply = "ok"
     THEN /\ collections' = CacheSet(flows[i].handle)
          /\ Update(i, [flows[i] EXCEPT
                          !.pc = Resolved(i),
                          !.ret = IF Resolved(i) = "done" THEN "ok" ELSE ""])
     ELSE /\ Update(i, [flows[i] EXCEPT !.pc = "done", !.ret = "throw",
                                        !.err = flows[i].reply])
          /\ UNCHANGED collections
  /\ UNCHANGED <<backend, op, ret, err, result, config>>

\* the server handles client.deleteCollection of flow i
DropServed(i) ==
  /\ flows[i].pc = "deleteCollection"
  /\ \E down \in BOOLEAN, notFoundText \in BOOLEAN :
       LET r == ClientDeleteCollection(backend, "c1", down, notFoundText)
       IN /\ backend' = r.be
          /\ Update(i, [flows[i] EXCEPT
                          !.pc = "awaitDelete",
                          !.reply = IF r.ok THEN "ok" ELSE r.err])
  /\ UNCHANGED <<collections, op, ret, err, result, config>>

\* where dropCollection goes when await client.deleteCollection settles
DropSettled(reply) ==
  IF reply = "ok" THEN "delete"
  ELSE IF reply # "not found" THEN "throw"
  ELSE "return"

\* flow i resumes after await client.deleteCollection
DropResumed(i) ==
  /\ flows[i].pc = "awaitDelete"
  /\ LET to == DropSettled(flows[i].reply)
     IN \/ /\ to = "delete"
           /\ collections' = CacheDelete
           /\ Update(i, [flows[i] EXCEPT !.pc = "done", !.ret = "ok"])
        \/ /\ to = "throw"
           /\ Update(i, [flows[i] EXCEPT !.pc = "done", !.ret = "throw",
                                         !.err = flows[i].reply])
           /\ UNCHANGED collections
        \/ /\ to = "return"
           /\ Update(i, [flows[i] EXCEPT !.pc = "done", !.ret = "ok"])
           /\ UNCHANGED collections
  /\ UNCHANGED <<backend, op, ret, err, result, config>>

\* the server handles the request flow i makes on its collection object:
\* add, query, delete or get; a handle whose collection is gone is refused
RequestServed(i) ==
  /\ flows[i].pc = "request"
  /\ \E down \in BOOLEAN, build \in Builds :
       LET call == flows[i].call
           request == AddRequest(call.documents)
           r == IF ~down /\ "c1" \in DOMAIN backend
                   /\ backend["c1"].id # flows[i].handle
                THEN Fail(backend, "collection does not exist")
                ELSE CASE call.f = "insert" ->
                            CollectionAdd(backend, "c1", request.ids,
                                          request.embeddings, request.metadatas,
                                          request.documents, down, build.addExisting)
                       [] call.f = "search" ->
                            CollectionQuery(backend, "c1", call.queryVector,
                                            DefaultTopK, buildWhereClause(Undefined),
                                            down, build.multiWhere)
                       [] call.f = "delete" ->
                            CollectionDelete(backend, "c1", call.ids, down)
                       [] call.f = "query" ->
                            CollectionGet(backend, "c1",
                                          parseFilterExpression(call.filter),
                                          DefaultLimit, down, build.multiWhere)
       IN /\ backend' = r.be
          /\ Update(i, [flows[i] EXCEPT
                          !.pc = "awaitRequest",
                          !.reply = IF r.ok THEN "ok" ELSE r.err])
  /\ UNCHANGED <<collections, op, ret, err, result, config>>

\* flow i resumes after the await of its request and returns or throws
RequestResumed(i) ==
  /\ flows[i].pc = "awaitRequest"
  /\ IF flows[i].reply = "ok"
     THEN Update(i, [flows[i] EXCEPT !.pc = "done", !.ret = "ok"])
     ELSE Update(i, [flows[i] EXCEPT !.pc = "done", !.ret = "throw",
                                     !.err = flows[i].reply])
  /\ UNCHANGED <<collections, backend, op, ret, err, result, config>>

\* every caller has made one call on "c1" (callers are interchangeable, so
\* they are listed by method); the collection is either unknown to adapter
\* and backend, or was created with dimension 1 and is cached
InitRace ==
  /\ \/ collections = << >> /\ backend = << >>
     \/ /\ collections = [n \in {"c1"} |-> 0]
        /\ backend = [n \in {"c1"} |-> Spread(NewCollection(1), [id |-> 0])]
  /\ op = [f |-> "none"]
  /\ ret = "ok"
  /\ err = ""
  /\ result = << >>
  /\ flows \in [Flows -> { Called(call) : call \in Calls }]
  /\ \A i, j \in Flows :
       i < j => MethodIndex(flows[i].call.f) <= MethodIndex(flows[j].call.f)
  /\ config = [model |-> "text-embedding-3-small"]

NextRace ==
  \E i \in Flows :
    \/ Enter(i)
    \/ LookupServed(i)
    \/ LookupResumed(i)
    \/ CreateServed(i)
    \/ CreateResumed(i)
    \/ CatchServed(i)
    \/ CatchResumed(i)
    \/ DropServed(i)
    \/ DropResumed(i)
    \/ RequestServed(i)
    \/ RequestResumed(i)

SpecRace == InitRace /\ [][NextRace]_vars

(***************************************************************************)
(* Insert and search of documents whose provenance and metadata vary       *)
(***************************************************************************)
\* start lines of the documents; each spans two lines
Lines == {0, 1}

\* the metadata mappings documents carry: a key of their own, or keys that
\* are also names of document fields
MetadataMappings ==
  { [language |-> "go"],
    [relativePath |-> "lib/b.go"],
    [content |-> "b", startLine |-> "7"] }

ProvenanceDocs ==
  { [id |-> i, vector |-> <<0>>, content |-> "a", relativePath |-> "src/a.ts",
     startLine |-> s, endLine |-> s + 1, fileExtension |-> ".ts", metadata |-> m] :
    i \in Ids, s \in Lines, m \in MetadataMappings }

\* insert(name, [document])
InsertDocument ==
  \E n \in Names, d \in ProvenanceDocs :
    \E out \in { insert(collections, backend, n, << d >>, F, build.addExisting) :
                 F \in FailPatterns, build \in Builds } :
      Finish(out, [f |-> "insert", c |-> n, documents |-> << d >>], << >>)

\* search(name, queryVector) with no options
SearchDocuments ==
  \E n \in Names, q \in HybridVectors :
    \E out \in { search(collections, backend, n, q,
                        [topK |-> 0, filter |-> Undefined, limit |-> 0], F,
                        build.multiWhere) :
                 F \in FailPatterns, build \in Builds } :
      \E r \in out.vals :
        Finish(out, [f |-> "search", c |-> n, queryVector |-> q], r)

NextRoundTrip == InsertDocument \/ SearchDocuments

SpecRoundTrip == Init /\ [][NextRoundTrip]_vars

(***************************************************************************)
(* Properties                                                              *)
(***************************************************************************)
\* the stored record of an id
Rec(be, name, id) == CHOOSE r \in DocsOf(be, name) : r.id = id

\* the record insert hands to the backend for a document
RecordOf(doc) ==
  [id |-> doc.id, embedding |-> doc.vector, metadata |-> Metadatas(doc),
   document |-> doc.content]

\* C1: createCollection(name, dimension) on a collection that already
\* exists does not throw (the only failure left is an unreachable backend)
\* and leaves every stored document of the collection unchanged.
CreateIdempotent ==
  [][ ( /\ op'.f = "createCollection"
        /\ op'.dimension \in Dimensions
        /\ op'.c \in DOMAIN backend ) =>
        /\ ret' = "throw" => err' = "connection refused"
        /\ op'.c \in DOMAIN backend'
        /\ backend'[op'.c].docs = backend[op'.c].docs ]_vars

\* createCollection returned on a collection that holds documents
CreateIdempotentWitness ==
  /\ op.f = "createCollection"
  /\ ret = "ok"
  /\ DocsOf(backend, op.c) # {}

\* C2: every stored vector has exactly the declared dimension of its
\* collection, because insert rejects a batch holding any other length;
\* stated for the collections a caller declared with createCollection.
DimensionInvariant ==
  \A n \in DOMAIN backend :
    backend[n].declared \in Dimensions =>
      \A r \in backend[n].docs : Len(r.embedding) = backend[n].declared

\* C3: after insert returns, each document of the batch is the one and only
\* stored document of its id, with the vector, content and metadata given
\* in this insert, also when the id was stored before.
UpsertReplaces ==
  (op.f = "insert" /\ ret = "ok") =>
    \A i \in DOMAIN op.documents :
      { r \in DocsOf(backend, op.c) : r.id = op.documents[i].id }
        = { RecordOf(op.documents[i]) }

SelfRetrieval ==
  [][ ( /\ op.f = "insert" /\ ret = "ok" /\ Len(op.documents) = 1
        /\ op'.f = "search" /\ ret' = "ok" /\ op'.c = op.c
        /\ op'.queryVector = op.documents[1].vector
        /\ ~op'.options.filter.defined
        /\ \A r \in DocsOf(backend, op.c) :
             r.id # op.documents[1].id => r.embedding # op.documents[1].vector )
      => /\ Len(result') >= 1
         /\ result'[1].document.id = op.documents[1].id
         /\ result'[1].score = 1 ]_vars

\* backend distance of a hit of the last search
HitDistance(i) ==
  SquaredL2(op.queryVector, Rec(backend, op.c, result[i].document.id).embedding)

DeleteRoundTrip ==
  [][ /\ (op'.f = "delete" /\ ret' = "ok") =>
           StoredIds(backend', op'.c) \cap Range(op'.ids) = {}
      /\ \A n \in Names : \A x \in StoredIds(backend', n) \ StoredIds(backend, n) :
           /\ op'.f = "insert" /\ op'.c = n
           /\ \E i \in DOMAIN op'.documents : op'.documents[i].id = x
      /\ (op'.f \in {"search", "query"} /\ ret' = "ok") =>
           \A i \in DOMAIN result' :
             (IF op'.f = "search" THEN result'[i].document.id ELSE result'[i].id)
               \in StoredIds(backend', op'.c) ]_vars

\* a search with the right dimension came back empty from a collection whose
\* documents have all been deleted
DeleteRoundTripWitness ==
  /\ op.f = "search"
  /\ ret = "ok"
  /\ op.c \in DOMAIN backend
  /\ backend[op.c].dim = Len(op.queryVector)
  /\ backend[op.c].docs = {}
  /\ result = << >>

\* C8: delete returns successfully whether or not its ids are stored, removes
\* exactly the stored ones among them and leaves every other document as it
\* was; repeating the call changes nothing.
DeleteIdempotent ==
  [][ /\ op'.f = "delete" =>
           /\ ret' = "throw" => err' = "connection refused"
           /\ ret' = "ok" =>
                DocsOf(backend', op'.c)
                  = { r \in DocsOf(backend, op'.c) : r.id \notin Range(op'.ids) }
           /\ ret' = "throw" => DocsOf(backend', op'.c) = DocsOf(backend, op'.c)
      /\ ( /\ op.f = "delete" /\ ret = "ok"
           /\ op'.f = "delete" /\ op'.c = op.c /\ op'.ids = op.ids ) =>
           backend' = backend ]_vars

\* a delete returned on a collection that never held a document, so none of
\* its ids was present
DeleteIdempotentWitness ==
  /\ op.f = "delete"
  /\ ret = "ok"
  /\ op.c \in DOMAIN backend
  /\ backend[op.c].dim = 0

\* a filter mapping whose values are all scalars
ScalarFilter(filter) ==
  /\ filter.defined
  /\ \A k \in DOMAIN filter.map : filter.map[k][1] = "lit"

\* C9: a search with a filter mapping of fields to scalars returns only
\* documents whose stored metadata has the required value on every field of
\* the mapping.
FilterCorrect ==
  (op.f = "search" /\ ret = "ok" /\ ScalarFilter(op.options.filter)) =>
    \A i \in DOMAIN result :
      \A k \in DOMAIN op.options.filter.map :
        LET m == Rec(backend, op.c, result[i].document.id).metadata
        IN k \in DOMAIN m /\ m[k] = op.options.filter.map[k][2]

\* a filtered search returned one of two stored documents
FilterCorrectWitness ==
  /\ op.f = "search"
  /\ ret = "ok"
  /\ ScalarFilter(op.options.filter)
  /\ DOMAIN op.options.filter.map # {}
  /\ Len(result) = 1
  /\ Cardinality(DocsOf(backend, op.c)) = 2

\* the query filter strings that are neither an equality mapping nor of the
\* form field=value
NonEqualityStrings ==
  { << "language", ">", "go" >>,
    << "language", "=", "=", "go" >>,
    << "{", "\"language\"", ":", "{", "\"$ne\"", ":", "\"go\"", "}", "}" >> }

NonEqualityFilter ==
  \/ op.f = "search" /\ op.options.filter.defined /\ ~ScalarFilter(op.options.filter)
  \/ op.f = "query" /\ op.filter \in NonEqualityStrings

\* C10: a search or query whose filter is not a pure equality filter fails
\* with UnsupportedFilter, it is not answered; stated for a reachable backend
\* and a collection that holds documents, and counting the backend's own
\* rejection of a where clause as such a failure.
UnsupportedFilterRejected ==
  (NonEqualityFilter /\ err # "connection refused" /\ DocsOf(backend, op.c) # {}) =>
    ret = "throw" /\ err \in {"UnsupportedFilter", "invalid where"}

\* C11: createCollection(name, d2) on a collection that was declared with
\* another dimension d1 never returns success: it fails with a
\* DimensionMismatch error (an unreachable backend aside) and leaves the
\* collection, its declared dimension and its documents as they were.
DimensionConflictRejected ==
  [][ ( /\ op'.f = "createCollection"
        /\ op'.c \in DOMAIN backend
        /\ backend[op'.c].declared \in Dimensions \ {op'.dimension}
        /\ err' # "connection refused" ) =>
        /\ ret' = "throw"
        /\ err' = "DimensionMismatch"
        /\ backend' = backend ]_vars

\* C12: when several callers create the same absent name concurrently,
\* every call whose backend requests were answered succeeds, at most one
\* call performs the creation and every other successful call observed
\* 'already exists', the name is one collection, and all successful callers
\* hold a handle with the same declared dimension, that of the collection.
ConcurrentCreate ==
  /\ \A i \in DOMAIN flows :
       flows[i].pc = "done" =>
         /\ flows[i].ret = "throw" => flows[i].err = "connection refused"
         /\ flows[i].ret = "ok" =>
              /\ "c1" \in DOMAIN backend
              /\ "c1" \in collections
              /\ flows[i].handle = backend["c1"].declared
              /\ flows[i].created # flows[i].exists
  /\ Cardinality({ i \in DOMAIN flows : flows[i].created }) <= 1
  /\ \A i, j \in DOMAIN flows :
       (flows[i].ret = "ok" /\ flows[j].ret = "ok") =>
         flows[i].handle = flows[j].handle

\* a caller has returned after observing 'already exists' while the caller
\* whose request created the collection, with another requested dimension,
\* has not yet resumed from its await
ConcurrentCreateWitness ==
  \E i, j \in DOMAIN flows :
    /\ flows[i].pc = "awaitCreate"
    /\ flows[i].created
    /\ flows[j].pc = "done"
    /\ flows[j].ret = "ok"
    /\ flows[j].exists
    /\ flows[i].dimension # flows[j].dimension

\* C13: a name leaves the Absent state only through createCollection:
\* insert, search and query on a name that has no collection (never created,
\* or dropped) neither store documents nor bring a collection into existence.
LifecycleGuard ==
  [][ \A n \in Names :
        n \notin DOMAIN backend =>
          /\ n \in DOMAIN backend' => op'.f = "createCollection"
          /\ (op'.f \in {"insert", "search", "query"} /\ op'.c = n) =>
               backend' = backend ]_vars

\* C14: dropCollection, the backend being reachable, returns without
\* throwing; for a name that has no collection it changes nothing, and for
\* an existing collection it removes it, so that listCollections no longer
\* reports the name.
DropNoop ==
  [][ (op'.f = "dropCollection" /\ err' # "connection refused") =>
        /\ ret' = "ok"
        /\ op'.c \notin listCollections(backend')
        /\ op'.c \notin DOMAIN backend =>
             backend' = backend /\ collections' = collections ]_vars

\* a filter that every backend build accepts: none, or one equality
AcceptedFilter(filter) ==
  \/ ~filter.defined
  \/ ScalarFilter(filter) /\ Cardinality(DOMAIN filter.map) = 1

\* C15: a search on a name that has no collection returns an empty result
\* list, it raises neither CollectionNotFound nor any other error; stated
\* for a reachable backend and a filter the backend accepts.
SearchAbsentEmpty ==
  [][ ( /\ op'.f = "search"
        /\ op'.c \notin DOMAIN backend
        /\ AcceptedFilter(op'.options.filter)
        /\ err' # "connection refused" ) =>
        /\ ret' = "ok"
        /\ result' = << >> ]_vars

\* a search returned the empty list from a collection that holds nothing
\* and was never declared: the one the search itself brought about
SearchAbsentEmptyWitness ==
  /\ op.f = "search"
  /\ AcceptedFilter(op.options.filter)
  /\ ret = "ok"
  /\ result = << >>
  /\ op.c \in DOMAIN backend
  /\ backend[op.c] = NewCollection(0)

\* C16: when embedBatch returns, it returns exactly one vector per input
\* text, the i-th vector being the embedding of the i-th text, whatever the
\* order or the number of the items in the backend's reply.
BatchOrder ==
  (op.f = "embedBatch" /\ ret = "ok") =>
    /\ Len(result) = Len(op.texts)
    /\ \A i \in DOMAIN result : result[i].vector.of = op.texts[i].body

\* the vectors a call of embed or embedBatch returned
Produced ==
  IF op.f = "embedBatch" THEN { result[i].vector : i \in DOMAIN result }
  ELSE IF ~result.defined THEN {}
  ELSE { result.vector }

\* C17: getDimension() is the length of the vectors embed and embedBatch
\* produce with the configured model, also for a model that the static
\* table does not list.
DimensionIsVectorLength ==
  (op.f \in {"embed", "embedBatch"} /\ ret = "ok") =>
    \A v \in Produced : v.length = getDimension(config)

\* C18: for a model that the static table does not list, detectDimension
\* sends a probe request to the backend, and what it returns is the length
\* of the probed vector: it returns no dimension without a backend call.
ProbeWhenUnknown ==
  (op.f = "detectDimension" /\ config.model \notin DOMAIN modelDimensions) =>
    /\ op.fetches >= 1
    /\ ret = "ok" => result = BackendDimension(config.model)

\* the backend fails transiently (rate limit, network) on the first requests
\* of the call and answers the next one, within the attempt bound, well
RecoversInTime ==
  /\ op.f \in {"embed", "embedBatch"}
  /\ Len(op.answers) >= 2
  /\ op.answers[Len(op.answers)] = [status |-> 200, shape |-> "inOrder"]

\* C19: a request that fails transiently is retried, up to the attempt
\* bound: a call whose backend fails transiently and then answers within
\* the bound returns normally, having sent one request per answer.
RetryTransient ==
  RecoversInTime => (ret = "ok" /\ op.fetches = Len(op.answers))

\* the kind of the failure an answer of the backend is
FailureKind(answer) ==
  CASE answer.status = 0 -> "ConnectionError"
    [] answer.status = 401 -> "AuthenticationError"
    [] answer.status = 404 -> "UnsupportedModel"
    [] answer.status = 429 -> "RateLimited"
    [] answer.shape = "noData" -> "ResponseFormatError"
    [] OTHER -> "Error"

\* C20: a failure of embed or embedBatch surfaces as an error of its kind:
\* bad credentials as AuthenticationError, a rate limit as RateLimited, an
\* unknown model as UnsupportedModel, a malformed reply as
\* ResponseFormatError, an unreachable backend as ConnectionError, so that
\* failures of different kinds never surface as the same generic error.
ErrorKindKept ==
  ( /\ op.f \in {"embed", "embedBatch"}
    /\ ret = "throw"
    /\ op.answers[1].status # 500 ) =>
    err.name = FailureKind(op.answers[1])

\* C21: no adapter operation swallows a backend error; for hasCollection:
\* when its backend call fails, the caller observes an error, not a normal
\* return value such as false.
NoSwallow ==
  (op.f = "hasCollection" /\ op.failed) => ret = "throw"

(***************************************************************************)
(* Hybrid search: the two ranked lists of a request and their fusion       *)
(***************************************************************************)
\* the position of an id in ascending id order
IdRank(i) == IF i = "x" THEN 1 ELSE 2

\* the dense and the lexical request of the last hybridSearch call
DenseOf(reqs) == { reqs[i] : i \in { j \in DOMAIN reqs : reqs[j].anns_field = "vector" } }
LexicalOf(reqs) ==
  { reqs[i] : i \in { j \in DOMAIN reqs : reqs[j].anns_field = "sparse_vector" } }

\* r is the nearest stored document to the query vector, no other as near
FirstDense(docs, q, r) ==
  /\ r \in docs
  /\ Len(r.embedding) = Len(q)
  /\ \A s \in docs \ {r} : SquaredL2(q, r.embedding) < SquaredL2(q, s.embedding)

\* the lexical list: the stored documents whose text is the query text, in
\* ascending id order
LexicalHits(docs, t) == { r \in docs : r.document = t }
FirstLexical(docs, t, r) ==
  /\ r \in LexicalHits(docs, t)
  /\ \A s \in LexicalHits(docs, t) : IdRank(r.id) <= IdRank(s.id)

HybridReturned ==
  /\ op.f = "hybridSearch"
  /\ ret = "ok"
  /\ DenseOf(op.searchRequests) # {}
  /\ LexicalOf(op.searchRequests) # {}

\* C22: a document that ranks first in the dense list and first in the
\* lexical list of a hybrid search is the first element of the list
\* hybridSearch returns.
FusionMonotone ==
  HybridReturned =>
    \A d \in DenseOf(op.searchRequests), l \in LexicalOf(op.searchRequests) :
      \A r \in DocsOf(backend, op.c) :
        (FirstDense(DocsOf(backend, op.c), d.data, r)
           /\ FirstLexical(DocsOf(backend, op.c), l.data, r)) =>
          (Len(result) >= 1 /\ result[1].document.id = r.id)

\* a hybrid search returned two hits, the first of which is the nearest
\* document and the first lexical hit
FusionMonotoneWitness ==
  /\ HybridReturned
  /\ Len(result) = 2
  /\ \E d \in DenseOf(op.searchRequests), l \in LexicalOf(op.searchRequests) :
       \E r \in DocsOf(backend, op.c) :
         /\ FirstDense(DocsOf(backend, op.c), d.data, r)
         /\ FirstLexical(DocsOf(backend, op.c), l.data, r)
         /\ result[1].document.id = r.id

\* the one ordering of S by ascending key, equal keys by ascending id
Ranked(S, key) ==
  CHOOSE p \in Orderings(S, [r \in S |-> 3 * key[r] + IdRank(r.id)]) : TRUE

\* a list cut to a limit; limit 0 (omitted) cuts nothing
Cut(p, limit) == IF limit = 0 THEN p ELSE Top(p, limit)

\* the dense ranking of the stored documents for a query vector, and the
\* lexical ranking for a query text
DenseRanking(docs, q) ==
  LET near == { r \in docs : Len(r.embedding) = Len(q) }
  IN Ranked(near, [r \in near |-> SquaredL2(q, r.embedding)])
LexicalRanking(docs, t) ==
  Ranked(LexicalHits(docs, t), [r \in LexicalHits(docs, t) |-> 0])

\* rank-based fusion: a list contributes the reciprocal of the rank (as
\* sixths) of a document it holds, and nothing for a document it lacks
Term(p, r) ==
  IF \E i \in DOMAIN p : p[i] = r
  THEN 6 \div (CHOOSE i \in DOMAIN p : p[i] = r)
  ELSE 0
FusedScore(dense, lexical, r) == Term(dense, r) + Term(lexical, r)

\* the fused ranking of two lists: descending score, equal scores by
\* ascending id
Fused(dense, lexical) ==
  LET cand == Range(dense) \cup Range(lexical)
  IN Ranked(cand, [r \in cand |-> 12 - FusedScore(dense, lexical, r)])

ResultIds == { result[i].document.id : i \in DOMAIN result }

\* no two stored documents are equally near to the query vector
NoDenseTie(docs, q) ==
  \A r, s \in docs :
    (r # s /\ Len(r.embedding) = Len(q)) =>
      SquaredL2(q, r.embedding) # SquaredL2(q, s.embedding)

\* C23: every document of the lexical list is a candidate of the fused
\* result: it is returned, unless the requested result limit is reached by
\* documents whose fused score is at least the term its lexical rank gives;
\* stated for the requests whose dense ranking has no ties.
LexicalCandidates ==
  HybridReturned =>
    \A d \in DenseOf(op.searchRequests), l \in LexicalOf(op.searchRequests) :
      LET docs == DocsOf(backend, op.c)
          dense == Cut(DenseRanking(docs, d.data), d.limit)
          lexical == Cut(LexicalRanking(docs, l.data), l.limit)
      IN \A r \in Range(lexical) :
           \/ ~NoDenseTie(docs, d.data)
           \/ r.id \in ResultIds
           \/ /\ op.options.limit # 0
              /\ Len(result) = op.options.limit
              /\ \A s \in docs :
                   s.id \in ResultIds =>
                     FusedScore(dense, lexical, s) >= Term(lexical, r)

ResultIdList == [i \in DOMAIN result |-> result[i].document.id]

\* C24: hybridSearch cuts to the requested limit after fusing: what it
\* returns is the first limit entries of the fusion of the uncut dense and
\* lexical rankings; stated for the requests whose dense ranking has no ties.
TruncateAfterFusion ==
  (HybridReturned /\ op.options.limit # 0) =>
    \A d \in DenseOf(op.searchRequests), l \in LexicalOf(op.searchRequests) :
      LET docs == DocsOf(backend, op.c)
          fused == Fused(DenseRanking(docs, d.data), LexicalRanking(docs, l.data))
      IN NoDenseTie(docs, d.data) =>
           ResultIdList = [i \in 1 .. Min(op.options.limit, Len(fused)) |-> fused[i].id]

\* C25: hits of equal score come in ascending id order, in the list search
\* returns and in the one hybridSearch returns.
TieBreakById ==
  (op.f \in {"search", "hybridSearch"} /\ ret = "ok") =>
    \A i, j \in DOMAIN result :
      (i < j /\ result[i].score = result[j].score) =>
        IdRank(result[i].document.id) < IdRank(result[j].document.id)

\* C26: search returns at most as many hits as the limit the caller
\* requested in its options.
SearchWithinLimit ==
  (op.f = "search" /\ ret = "ok" /\ op.options.limit # 0) =>
    Len(result) <= op.options.limit

(***************************************************************************)
(* Concurrent inserts of one id                                            *)
(***************************************************************************)
\* the writer whose add request the backend handled last
LastApplied == CHOOSE i \in Writers : flows[i].applied = Handled

\* C27: after two concurrent inserts of a document with the same id have
\* both completed, the collection holds exactly one document with that id
\* and it carries the vector, content and metadata of the write the backend
\* applied last
LastWriteWins ==
  \A i, j \in Writers :
    ( /\ i # j
      /\ flows[i].pc = "done" /\ flows[i].ret = "ok"
      /\ flows[j].pc = "done" /\ flows[j].ret = "ok"
      /\ flows[i].documents[1].id = flows[j].documents[1].id )
    => LET id == flows[i].documents[1].id
       IN /\ Cardinality({ r \in DocsOf(backend, "c1") : r.id = id }) = 1
          /\ Rec(backend, "c1", id) = RecordOf(flows[LastApplied].documents[1])

\* C28: a stored document is never partial, whichever await an insert has
\* been abandoned at or has failed at: every record of the backend is,
\* field for field (id, embedding, metadata, text), the record of one
\* document of one insert whose add request the backend handled
NoPartialDocument ==
  \A r \in DocsOf(backend, "c1") :
    \E i \in Writers :
      /\ flows[i].applied # 0
      /\ \E k \in DOMAIN flows[i].documents :
           r = RecordOf(flows[i].documents[k])

\* a batch of two documents has been stored while its caller has not
\* resumed, and another insert has failed
NoPartialDocumentWitness ==
  \E i, j \in Writers :
    /\ Len(flows[i].documents) = 2
    /\ flows[i].pc = "awaitAdd"
    /\ flows[i].reply = "ok"
    /\ Cardinality(DocsOf(backend, "c1")) = 2
    /\ flows[j].ret = "throw"

(***************************************************************************)
(* Supported models and their dimensions                                   *)
(***************************************************************************)
\* the documented dimensions of a model (one value unless the guides disagree)
Documented(m) ==
  { DocumentedModels[k].dimensions :
      k \in { j \in DOMAIN DocumentedModels : DocumentedModels[j].model = m } }

\* C29: for every model of getSupportedModels() getDimension() returns the
\* dimension the guides document for it, the supported models are exactly
\* the keys of the dimension table, and a provider configured with a
\* supported model reports that dimension
SupportedDimensions ==
  /\ getSupportedModels = DOMAIN modelDimensions
  /\ \A m \in getSupportedModels :
       Documented(m) = { getDimension([model |-> m]) }
  /\ (op.f = "detectDimension" /\ config.model \in getSupportedModels)
       => Documented(config.model) = { result }

\* a provider configured with gte-small has reported dimension 384
SupportedDimensionsWitness ==
  /\ op.f = "detectDimension"
  /\ config.model = "gte-small"
  /\ ret = "ok"
  /\ result = 384

(***************************************************************************)
(* The lifecycle of the deployment test                                    *)
(***************************************************************************)
\* C30: createCollection(name) called without a dimension returns
\* successfully whenever the backend is reachable, the first step of the
\* lifecycle createCollection, insert, search, delete
CreateWithoutDimension ==
  (op.f = "createCollection" /\ op.dimension = 0) =>
    (ret = "ok" \/ err = "connection refused")

(***************************************************************************)
(* Persistence                                                             *)
(***************************************************************************)
\* C31: a stored document persists until it is explicitly removed: an id
\* that is stored in a collection is still stored, with the same record,
\* after every call (createCollection, insert, search, query, hybridSearch,
\* hasCollection, listCollections) except a delete of that collection that
\* names the id and a dropCollection of that collection.
PersistsUntilRemoved ==
  [][ \A n \in Names : \A r \in DocsOf(backend, n) :
        \/ r \in DocsOf(backend', n)
        \/ /\ op'.f = "delete" /\ op'.c = n
           /\ r.id \in Range(op'.ids)
        \/ op'.f = "dropCollection" /\ op'.c = n ]_vars

\* a createCollection returned on a collection that holds two documents
PersistsUntilRemovedWitness ==
  /\ op.f = "createCollection"
  /\ ret = "ok"
  /\ op.c \in collections
  /\ Cardinality(DocsOf(backend, op.c)) = 2

(***************************************************************************)
(* The handle cache under concurrent calls                                 *)
(***************************************************************************)
\* C32: whenever a dropCollection returns successfully, on its not-found
\* path as on the other, the cache holds no handle for the name.
DropInvalidates ==
  [][ \A i \in Flows :
        ( /\ flows[i].call.f = "dropCollection"
          /\ flows[i].pc # "done"
          /\ flows'[i].pc = "done"
          /\ flows'[i].ret = "ok" )
        => "c1" \notin DOMAIN collections' ]_vars

\* C33: once all flows have finished, the name has a cached handle only if
\* the backend still holds the collection that handle was obtained for.
NoStaleHandle ==
  (\A i \in Flows : flows[i].pc = "done") =>
    ( "c1" \in DOMAIN collections =>
        /\ "c1" \in DOMAIN backend
        /\ backend["c1"].id = collections["c1"] )

(***************************************************************************)
(* Read-style operations                                                   *)
(***************************************************************************)
\* C34: search, query, hasCollection and a delete of ids that are not stored
\* leave the backend as it was: listCollections reports the same names and
\* every collection holds the same documents before and after the call.
ReadOnly ==
  [][ ( \/ op'.f \in { "search", "query", "hasCollection" }
        \/ /\ op'.f = "delete"
           /\ Range(op'.ids) \cap StoredIds(backend, op'.c) = {} )
      => /\ listCollections(backend') = listCollections(backend)
         /\ \A n \in Names : DocsOf(backend', n) = DocsOf(backend, n) ]_vars

\* C35: hasCollection(name) returns true exactly if the backend holds a
\* collection of that name when it is called.
HasCollectionExact ==
  [][ (op'.f = "hasCollection" /\ ~op'.failed) =>
        (result' = (op'.c \in listCollections(backend))) ]_vars

ProvenanceRoundTrip ==
  [][ ( /\ op.f = "insert" /\ ret = "ok"
        /\ op'.f = "search" /\ ret' = "ok" /\ op'.c = op.c )
      => \A k \in DOMAIN result' : \A j \in DOMAIN op.documents :
           LET d == op.documents[j]
               hit == result'[k].document
           IN (hit.id = d.id /\ RecordOf(d) \in DocsOf(backend, op.c)) =>
                /\ hit.content = d.content
                /\ hit.relativePath = d.relativePath
                /\ hit.startLine = d.startLine
                /\ hit.endLine = d.endLine
                /\ hit.fileExtension = d.fileExtension ]_vars

\* C38: the vector of the document in every search hit is the vector that
\* is stored for the document's id, whatever the query vector is.
HitVectorStored ==
  (op.f = "search" /\ ret = "ok") =>
    \A k \in DOMAIN result :
      result[k].document.vector = Rec(backend, op.c, result[k].document.id).embedding

(***************************************************************************)
(* Errors of createCollection and dropCollection                           *)
(***************************************************************************)
\* C39: when createCollection or dropCollection throws, the handle cache,
\* the backend's collections and all stored documents are exactly as they
\* were before the call.
ThrowLeavesState ==
  [][ (op'.f \in { "createCollection", "dropCollection" } /\ ret' = "throw") =>
        /\ collections' = collections
        /\ backend' = backend ]_vars

\* a dropCollection has thrown on a cached collection that holds a document
ThrowLeavesStateWitness ==
  /\ op.f = "dropCollection"
  /\ ret = "throw"
  /\ op.c \in collections
  /\ DocsOf(backend, op.c) # {}

====
